---- MODULE Spec2Model ----
(***************************************************************************)
(* Session pool of src/src/worker/inference-engine.js (class               *)
(* InferenceEngine with its ManagedSession wrapper).                       *)
(*                                                                         *)
(* JavaScript runs one flow of control; an async function runs             *)
(* synchronously up to its next await.  Every action below is one such     *)
(* synchronous run: from a call (or a resumption after an await) to the    *)
(* next await or to the return.  The model provider (createContext,        *)
(* session.prompt) is external: each of its promises resolves or rejects   *)
(* at a time and with an outcome the model chooses nondeterministically.   *)
(***************************************************************************)
EXTENDS Integers, Sequences, FiniteSets, TLC

\* ---------------------------------------------------------------- bounds
MaxConcurrent == 2   \* generate/generateStream calls in flight at one time
MaxIssued == 3       \* generate/generateStream calls issued in one behaviour
MaxTime == 2         \* last value of the clock Date.now()
MaxCapacity == 2     \* largest maxContexts option tried
MaxTimeout == 1      \* largest contextTimeout option tried
MaxTokens == 2       \* fragments the provider produces in one generateStream at most

\* the activations of generate/generateStream that can be live at one time
Calls == 1..MaxConcurrent

\* ids the pool-local counter can hand out: one per call at most
Ids == 1..MaxIssued

VARIABLES
    maxSessions,      \* this.maxSessions
    reuseSessions,    \* this.reuseSessions
    sessionTimeout,   \* this.sessionTimeout
    sessions,         \* this.sessions: the pool array, as a sequence of session ids
    objs,             \* the ManagedSession objects ever constructed, by id
    sessionIdCounter, \* this.sessionIdCounter
    cleanupTimer,     \* this.cleanupTimer is armed (not null)
    now,              \* Date.now()
    calls,            \* the activation record of each generate/generateStream call
    issued,           \* number of generate/generateStream calls made so far
    disposePc,        \* position of the engine's dispose(): "idle", "loop", "done"
    disposeIdx,       \* number of array slots the for-of of dispose() has visited
    idsAtDispose,     \* this.sessionIdCounter when dispose() was called
    lastReleased,     \* id of the pool session released last, 0 once an acquire followed
    alone,            \* busy sessions counted when the call now running alone was
                      \* issued, -1 when no call runs alone
    served,           \* per session, the calls that acquired it and have finished
    sequential,       \* no call was issued yet while another was in flight
    observed          \* what the step just taken returned to its caller or did

vars == <<maxSessions, reuseSessions, sessionTimeout, sessions, objs,
          sessionIdCounter, cleanupTimer, now, calls, issued, disposePc,
          disposeIdx, idsAtDispose, lastReleased, alone, served, sequential,
          observed>>

\* what no action but DisposeCall changes
config == <<maxSessions, reuseSessions, sessionTimeout, idsAtDispose>>

\* ------------------------------------------------------- error messages
\* An Error is the sequence of the parts of its message, outermost first:
\* `Inference failed: ${error.message}` puts one part in front.
NoError == <<>>
PoolExhausted == <<"No available sessions. All sessions are busy.">>
ProviderReason == <<"provider failure">>
NullSession == <<"TypeError: Cannot read properties of null">>

\* a createSession catch that drops error.message
CreationErrorNoReason(error) == <<"Failed to create session">>

\* `Failed to create session: ${error.message}`
CreationError(error) == <<"Failed to create session">> \o error

InferencePrefix(kind) ==
    IF kind = "generate" THEN "Inference failed" ELSE "Streaming inference failed"

CatchWrap(kind, error) == <<InferencePrefix(kind)>> \o error

\* ------------------------------------------------------- ManagedSession
\* An id names the object constructed with it; `made` is FALSE until
\* `new ManagedSession(context, session, id)` has run, `disposed` is TRUE once
\* dispose() has cleared the session and context references.
NotConstructed == [made |-> FALSE, busy |-> FALSE, lastUsedAt |-> 0,
                   requestCount |-> 0, disposed |-> FALSE]

NewManagedSession == [made |-> TRUE, busy |-> FALSE, lastUsedAt |-> now,
                      requestCount |-> 0, disposed |-> FALSE]

markBusy(o) == [o EXCEPT !.busy = TRUE, !.lastUsedAt = now]

\* a markAvailable without `this.requestCount++`
markAvailableNoCount(o) == [o EXCEPT !.busy = FALSE, !.lastUsedAt = now]

markAvailable(o) == [o EXCEPT !.busy = FALSE, !.lastUsedAt = now,
                              !.requestCount = @ + 1]

SessionDispose(o) == [o EXCEPT !.disposed = TRUE]

\* ------------------------------------------------------------- helpers
Range(f) == {f[i] : i \in DOMAIN f}

Pool == Range(sessions)

BusyCount(ss, os) == Cardinality({i \in DOMAIN ss : os[ss[i]].busy})

InFlight(c) == calls[c].pc \in {"creating", "acquired", "prompting"}

Holds(c, s) == calls[c].pc \in {"acquired", "prompting"} /\ calls[c].ms = s

\* activation record: sessionId is createSession's local, ms is managedSession
\* (0 for null), nth the call's number in issue order; an activation that has
\* returned is gone; of generateStream, totalTokens is its counter, fragments
\* the number of fragments the provider has produced and delivered the
\* cumulative counts the caller's onToken has been passed
NoCall == [pc |-> "idle", kind |-> "generate", nth |-> 0, sessionId |-> 0, ms |-> 0,
           totalTokens |-> 0, fragments |-> 0, delivered |-> <<>>]

NoObs == [op |-> "none"]

\* what the caller of generate/generateStream gets back, with the pool's busy
\* count at that moment: error is the Error thrown (NoError on success),
\* acqErr the Error getAvailableSession threw, sessionId the result's
\* sessionId, released the session the finally block released (0 for none),
\* tokens the totalTokens of generateStream's result (generate's estimate
\* from the text length is left out)
ReturnObs(c, acqErr, error, sessionId, released, busyAfter) ==
    [op |-> "return", nth |-> calls[c].nth, kind |-> calls[c].kind, acqErr |-> acqErr,
     error |-> error, sessionId |-> sessionId, released |-> released,
     solo |-> alone >= 0, busyBefore |-> alone, busyAfter |-> busyAfter,
     tokens |-> IF calls[c].kind = "stream" /\ error = NoError
                THEN calls[c].totalTokens ELSE 0,
     fragments |-> calls[c].fragments, delivered |-> calls[c].delivered]

\* ---------------------------------------------------------------- Init
Init ==
    /\ maxSessions \in 1..MaxCapacity
    /\ reuseSessions \in BOOLEAN
    /\ sessionTimeout \in 0..MaxTimeout
    /\ sessions = <<>>
    /\ objs = [s \in Ids |-> NotConstructed]
    /\ sessionIdCounter = 0
    /\ cleanupTimer = TRUE
    /\ now = 0
    /\ calls = [c \in Calls |-> NoCall]
    /\ issued = 0
    /\ disposePc = "idle"
    /\ disposeIdx = 0
    /\ idsAtDispose = 0
    /\ lastReleased = 0
    /\ alone = -1
    /\ served = [s \in Ids |-> 0]
    /\ sequential = TRUE
    /\ observed = NoObs

\* ---------------------------------------------------------------- clock
Tick ==
    /\ now < MaxTime
    /\ now' = now + 1
    /\ observed' = NoObs
    /\ UNCHANGED <<config, sessions, objs, sessionIdCounter, cleanupTimer, calls,
                   issued, disposePc, disposeIdx, lastReleased, alone, served,
                   sequential>>

\* ------------------------------------------------ getAvailableSession
\* a find callback that takes any session
IsAvailableAny(o) == TRUE

\* the callback of this.sessions.find
IsAvailable(o) == ~o.busy

\* a scan that returns the last idle session instead of the first
FindLastAvailable ==
    IF \E i \in DOMAIN sessions : ~objs[sessions[i]].busy
    THEN CHOOSE i \in DOMAIN sessions :
            /\ ~objs[sessions[i]].busy
            /\ \A j \in (i + 1)..Len(sessions) : objs[sessions[j]].busy
    ELSE 0

\* this.sessions.find(s => !s.busy): index of the first idle session, 0 if none
FindAvailable ==
    IF \E i \in DOMAIN sessions : IsAvailable(objs[sessions[i]])
    THEN CHOOSE i \in DOMAIN sessions :
            /\ IsAvailable(objs[sessions[i]])
            /\ \A j \in 1..(i - 1) : ~IsAvailable(objs[sessions[j]])
    ELSE 0

\* a reuse test that does not look at this.reuseSessions
CanReuseAlways == FindAvailable # 0

\* `if (this.reuseSessions)` with a session found by find
CanReuse == reuseSessions /\ FindAvailable # 0

\* a limit test that lets the pool grow one past maxSessions
UnderOrAtLimit == Len(sessions) <= maxSessions

\* "Create new session if under limit"
UnderLimit == Len(sessions) < maxSessions

\* an id taken from the pool's length instead of the counter
NextSessionIdFromLength == Len(sessions) + 1

\* ++this.sessionIdCounter
NextSessionId == sessionIdCounter + 1

OthersInFlight(c) == \E d \in Calls \ {c} : InFlight(d)

\* generate(prompt, options) / generateStream(prompt, onToken, options) is
\* called: runs getAvailableSession up to its first await, or, when it throws,
\* through catch and finally (managedSession is still null: nothing to release).
Generate(c, kind) ==
    /\ calls[c].pc = "idle"
    /\ \A d \in 1..(c - 1) : calls[d].pc # "idle"
    /\ issued < MaxIssued
    /\ issued' = issued + 1
    /\ LET idx == FindAvailable
           busy == BusyCount(sessions, objs)
           others == Cardinality({d \in Calls : InFlight(d)})
           idle == {s \in Pool : ~objs[s].busy}
       IN  IF CanReuse
           THEN /\ objs' = [objs EXCEPT ![sessions[idx]] = markBusy(@)]
                /\ calls' = [calls EXCEPT ![c] = [pc |-> "acquired", kind |-> kind,
                                                  nth |-> issued + 1,
                                                  sessionId |-> 0,
                                                  ms |-> sessions[idx],
                                                  totalTokens |-> 0,
                                                  fragments |-> 0,
                                                  delivered |-> <<>>]]
                /\ alone' = IF OthersInFlight(c) THEN -1 ELSE busy
                /\ observed' = [op |-> "acquire", nth |-> issued + 1,
                                others |-> others, created |-> FALSE,
                                got |-> sessions[idx], after |-> lastReleased,
                                before |-> sessions, idle |-> idle]
                /\ UNCHANGED sessionIdCounter
           ELSE IF UnderLimit
           THEN \* createSession: ++this.sessionIdCounter, then await createContext
                /\ sessionIdCounter' = NextSessionId
                /\ calls' = [calls EXCEPT ![c] = [pc |-> "creating", kind |-> kind,
                                                  nth |-> issued + 1,
                                                  sessionId |-> NextSessionId,
                                                  ms |-> 0, totalTokens |-> 0,
                                                  fragments |-> 0,
                                                  delivered |-> <<>>]]
                /\ alone' = IF OthersInFlight(c) THEN -1 ELSE busy
                /\ observed' = [op |-> "acquire", nth |-> issued + 1,
                                others |-> others, created |-> TRUE,
                                got |-> NextSessionId, after |-> lastReleased,
                                before |-> sessions, idle |-> idle]
                /\ UNCHANGED objs
           ELSE /\ calls' = [calls EXCEPT ![c] = NoCall]
                /\ observed' = [op |-> "rejected", nth |-> issued + 1,
                                others |-> others, kind |-> kind,
                                acqErr |-> PoolExhausted,
                                error |-> CatchWrap(kind, PoolExhausted),
                                busyBefore |-> busy, busyAfter |-> busy,
                                before |-> sessions, idle |-> idle]
                /\ alone' = -1
                /\ UNCHANGED <<objs, sessionIdCounter>>
    /\ lastReleased' = 0
    /\ sequential' = (sequential /\ ~OthersInFlight(c))
    /\ UNCHANGED <<config, sessions, cleanupTimer, now, disposePc, disposeIdx,
                   served>>

\* createContext resolved: the rest of createSession, which returns the new
\* session to generate's await
CreateResolved(c) ==
    /\ calls[c].pc = "creating"
    /\ LET id == calls[c].sessionId
       IN  /\ objs' = [objs EXCEPT ![id] = markBusy(NewManagedSession)]
           /\ sessions' = Append(sessions, id)
           /\ calls' = [calls EXCEPT ![c].pc = "acquired", ![c].ms = id]
    /\ observed' = NoObs
    /\ UNCHANGED <<config, sessionIdCounter, cleanupTimer, now, issued, disposePc,
                   disposeIdx, lastReleased, alone, served, sequential>>

\* createContext rejected (or getSequence threw): createSession's catch, then
\* generate's catch and finally with managedSession still null
CreateRejected(c) ==
    /\ calls[c].pc = "creating"
    /\ calls' = [calls EXCEPT ![c] = NoCall]
    /\ observed' = ReturnObs(c, CreationError(ProviderReason),
                             CatchWrap(calls[c].kind, CreationError(ProviderReason)),
                             0, 0, BusyCount(sessions, objs))
    /\ alone' = -1
    /\ UNCHANGED <<config, sessions, objs, sessionIdCounter, cleanupTimer, now,
                   issued, disposePc, disposeIdx, lastReleased, served, sequential>>

\* ----------------------------------------------------- releaseSession
\* a release that leaves the session as it is
releaseSessionNoop(os, s) == os

releaseSession(os, s) == [os EXCEPT ![s] = markAvailable(@)]

\* an exit that releases the session on the success path only
FinallyOnSuccessOnly(c, error, sessionId) ==
    LET ms == calls[c].ms
        os == IF error = NoError THEN releaseSession(objs, ms) ELSE objs
    IN  /\ objs' = os
        /\ lastReleased' = IF ms \in Pool /\ error = NoError THEN ms ELSE lastReleased
        /\ calls' = [calls EXCEPT ![c] = NoCall]
        /\ observed' = ReturnObs(c, NoError, error, sessionId,
                                 IF error = NoError THEN ms ELSE 0,
                                 BusyCount(sessions, os))
        /\ alone' = -1
        /\ served' = [served EXCEPT ![ms] = @ + 1]

\* the exit of generate/generateStream with a session: the finally block
\* releases it, then the result or the error reaches the caller
Finally(c, error, sessionId) ==
    LET ms == calls[c].ms
        os == releaseSession(objs, ms)
    IN  /\ objs' = os
        /\ lastReleased' = IF ms \in Pool THEN ms ELSE lastReleased
        /\ calls' = [calls EXCEPT ![c] = NoCall]
        /\ observed' = ReturnObs(c, NoError, error, sessionId, ms,
                                 BusyCount(sessions, os))
        /\ alone' = -1
        /\ served' = [served EXCEPT ![ms] = @ + 1]

\* generate resumes with its session and calls managedSession.session.prompt;
\* on a session whose references dispose() has cleared that is a TypeError,
\* caught by generate's own catch
StartPrompt(c) ==
    /\ calls[c].pc = "acquired"
    /\ IF objs[calls[c].ms].disposed
       THEN Finally(c, CatchWrap(calls[c].kind, NullSession), 0)
       ELSE /\ calls' = [calls EXCEPT ![c].pc = "prompting"]
            /\ observed' = NoObs
            /\ UNCHANGED <<objs, lastReleased, alone, served>>
    /\ UNCHANGED <<config, sessions, sessionIdCounter, cleanupTimer, now, issued,
                   disposePc, disposeIdx, sequential>>

\* prompt resolved: the result carries sessionId: managedSession.id
PromptResolved(c) ==
    /\ calls[c].pc = "prompting"
    /\ Finally(c, NoError, calls[c].ms)
    /\ UNCHANGED <<config, sessions, sessionIdCounter, cleanupTimer, now, issued,
                   disposePc, disposeIdx, sequential>>

\* an onToken wrapper that calls back before it counts
onTokenBeforeCount(r) == [r EXCEPT !.totalTokens = @ + 1,
                                   !.delivered = Append(@, r.totalTokens)]

\* the onToken option generateStream passes to prompt: totalTokens++, then
\* onToken(chunk, totalTokens)
onTokenWrapper(r) == [r EXCEPT !.totalTokens = @ + 1,
                               !.delivered = Append(@, r.totalTokens + 1)]

\* the provider produces a fragment during generateStream's prompt and calls
\* the onToken option with it
StreamToken(c) ==
    /\ calls[c].pc = "prompting"
    /\ calls[c].kind = "stream"
    /\ calls[c].fragments < MaxTokens
    /\ calls' = [calls EXCEPT ![c] = onTokenWrapper([@ EXCEPT !.fragments = @ + 1])]
    /\ observed' = NoObs
    /\ UNCHANGED <<config, sessions, objs, sessionIdCounter, cleanupTimer, now,
                   issued, disposePc, disposeIdx, lastReleased, alone, served,
                   sequential>>

\* prompt rejected
PromptRejected(c) ==
    /\ calls[c].pc = "prompting"
    /\ Finally(c, CatchWrap(calls[c].kind, ProviderReason), 0)
    /\ UNCHANGED <<config, sessions, sessionIdCounter, cleanupTimer, now, issued,
                   disposePc, disposeIdx, sequential>>

\* ----------------------------------------------- cleanupIdleSessions
\* session.getIdleTime() at the sweep's `now`
IdleTime(o) == now - o.lastUsedAt

\* an idle test that also takes a session idle for exactly the timeout
IdleAtLeast(o) == IdleTime(o) >= sessionTimeout

\* "Check if session has been idle too long"
IdleTooLong(o) == IdleTime(o) > sessionTimeout

\* a first loop without `if (session.busy) continue`
ShouldRemoveBusyToo(o) == IdleTooLong(o)

\* the first loop: busy sessions are skipped, the others are tested
ShouldRemove(o) == ~o.busy /\ IdleTooLong(o)

\* this.sessions.indexOf(session), 0 standing for -1
IndexOf(ss, s) ==
    IF \E i \in DOMAIN ss : ss[i] = s
    THEN CHOOSE i \in DOMAIN ss : ss[i] = s /\ \A j \in 1..(i - 1) : ss[j] # s
    ELSE 0

\* this.sessions.splice(index, 1)
Splice(ss, index) == SubSeq(ss, 1, index - 1) \o SubSeq(ss, index + 1, Len(ss))

\* the second loop: the pool left when every member of toRemove was spliced out
RECURSIVE RemoveAll(_, _)
RemoveAll(ss, toRemove) ==
    IF toRemove = <<>> THEN ss
    ELSE LET index == IndexOf(ss, Head(toRemove))
         IN  RemoveAll(IF index > 0 THEN Splice(ss, index) ELSE ss, Tail(toRemove))

\* the interval callback of startCleanupTimer fires
cleanupIdleSessions ==
    /\ cleanupTimer
    /\ LET toRemove == SelectSeq(sessions, LAMBDA s : ShouldRemove(objs[s]))
       IN  /\ sessions' = RemoveAll(sessions, toRemove)
           /\ objs' = [s \in Ids |->
                         IF s \in Range(toRemove) THEN SessionDispose(objs[s])
                         ELSE objs[s]]
           /\ lastReleased' = IF lastReleased \in Range(toRemove) THEN 0
                              ELSE lastReleased
           /\ observed' = [op |-> "sweep", before |-> sessions, was |-> objs,
                           at |-> now]
    /\ UNCHANGED <<config, sessionIdCounter, cleanupTimer, now, calls, issued,
                   disposePc, disposeIdx, alone, served, sequential>>

\* ------------------------------------------------------------ dispose
\* dispose() is called: stopCleanupTimer, then the for-of over this.sessions up
\* to its first `await session.dispose()` (whose body has run by then)
DisposeCall ==
    /\ disposePc = "idle"
    /\ cleanupTimer' = FALSE
    /\ idsAtDispose' = sessionIdCounter
    /\ IF Len(sessions) > 0
       THEN /\ objs' = [objs EXCEPT ![sessions[1]] = SessionDispose(@)]
            /\ disposeIdx' = 1
            /\ disposePc' = "loop"
       ELSE /\ disposePc' = "done"
            /\ UNCHANGED <<objs, disposeIdx>>
    /\ observed' = NoObs
    /\ UNCHANGED <<maxSessions, reuseSessions, sessionTimeout, sessions,
                   sessionIdCounter, now, calls, issued, lastReleased, alone,
                   served, sequential>>

\* dispose() resumes after an await: the array iterator reads the live array,
\* so it also visits sessions pushed since; after the last one,
\* this.sessions = []
DisposeResume ==
    /\ disposePc = "loop"
    /\ IF disposeIdx < Len(sessions)
       THEN /\ objs' = [objs EXCEPT ![sessions[disposeIdx + 1]] = SessionDispose(@)]
            /\ disposeIdx' = disposeIdx + 1
            /\ UNCHANGED <<sessions, disposePc>>
            /\ UNCHANGED lastReleased
       ELSE /\ sessions' = <<>>
            /\ disposePc' = "done"
            /\ lastReleased' = 0
            /\ UNCHANGED <<objs, disposeIdx>>
    /\ observed' = NoObs
    /\ UNCHANGED <<config, sessionIdCounter, cleanupTimer, now, calls, issued, alone,
                   served, sequential>>

\* ----------------------------------------------------------- getStats
\* a snapshot that derives availableSessions from maxSessions
getStatsFromCapacity ==
    [totalSessions |-> Len(sessions),
     busySessions |-> Cardinality({i \in DOMAIN sessions : objs[sessions[i]].busy}),
     availableSessions |-> maxSessions
            - Cardinality({i \in DOMAIN sessions : objs[sessions[i]].busy}),
     maxSessions |-> maxSessions]

\* getStats(): the counts of the snapshot (the per-session list is left out)
getStats ==
    [totalSessions |-> Len(sessions),
     busySessions |-> Cardinality({i \in DOMAIN sessions : objs[sessions[i]].busy}),
     availableSessions |-> Cardinality({i \in DOMAIN sessions :
                                            ~objs[sessions[i]].busy}),
     maxSessions |-> maxSessions]

\* --------------------------------------------------------------- Next
Next ==
    \/ Tick
    \/ \E c \in Calls : Generate(c, "generate")
    \/ \E c \in Calls : Generate(c, "stream")
    \/ \E c \in Calls : CreateResolved(c)
    \/ \E c \in Calls : CreateRejected(c)
    \/ \E c \in Calls : StartPrompt(c)
    \/ \E c \in Calls : StreamToken(c)
    \/ \E c \in Calls : PromptResolved(c)
    \/ \E c \in Calls : PromptRejected(c)
    \/ cleanupIdleSessions
    \/ DisposeCall
    \/ DisposeResume

Spec == Init /\ [][Next]_vars

\* ----------------------------------------------------- quickInference
\* quickInference(model, prompt, options): its engine is the pool above, built
\* with maxContexts: 1 and reuseContexts: false
QuickInit ==
    /\ Init
    /\ maxSessions = 1
    /\ reuseSessions = FALSE

\* `await engine.generate(prompt, options)`: the one call of the invocation
QuickGenerate ==
    /\ issued = 0
    /\ disposePc = "idle"
    /\ Generate(1, "generate")

\* a finally block entered without awaiting generate
QuickDisposesAtOnce == issued = 1

\* control reaches the finally block when the awaited generate has returned
\* or thrown
QuickAwaitsGenerate == issued = 1 /\ \A c \in Calls : ~InFlight(c)

\* finally { await engine.dispose() }
QuickDispose ==
    /\ QuickAwaitsGenerate
    /\ DisposeCall

\* a later invocation, after the earlier one has returned or thrown: it
\* constructs its own engine, whose ids name new session objects
QuickInference ==
    /\ disposePc = "done"
    /\ maxSessions' = 1
    /\ reuseSessions' = FALSE
    /\ sessions' = <<>>
    /\ objs' = [s \in Ids |-> NotConstructed]
    /\ sessionIdCounter' = 0
    /\ cleanupTimer' = TRUE
    /\ calls' = [c \in Calls |-> NoCall]
    /\ issued' = 0
    /\ disposePc' = "idle"
    /\ disposeIdx' = 0
    /\ idsAtDispose' = 0
    /\ lastReleased' = 0
    /\ alone' = -1
    /\ served' = [s \in Ids |-> 0]
    /\ sequential' = TRUE
    /\ observed' = [op |-> "construct"]
    /\ UNCHANGED <<sessionTimeout, now>>

NextQuick ==
    \/ Tick
    \/ QuickGenerate
    \/ \E c \in Calls : CreateResolved(c)
    \/ \E c \in Calls : CreateRejected(c)
    \/ \E c \in Calls : StartPrompt(c)
    \/ \E c \in Calls : PromptResolved(c)
    \/ \E c \in Calls : PromptRejected(c)
    \/ cleanupIdleSessions
    \/ QuickDispose
    \/ DisposeResume
    \/ QuickInference

\* the finally block follows the awaited generate at once, and the promises
\* dispose() awaits are those of ManagedSession.dispose, which have resolved
SpecQuick ==
    /\ QuickInit
    /\ [][NextQuick]_vars
    /\ WF_vars(QuickDispose)
    /\ WF_vars(DisposeResume)

TypeOK ==
    /\ maxSessions \in 1..MaxCapacity
    /\ sessionIdCounter \in 0..issued
    /\ Pool \subseteq Ids
    /\ \A s \in Pool : objs[s].made

\* ======================================================================
\* Claims
\* ======================================================================
Holders(s) == {c \in Calls : Holds(c, s)}

NoCallInFlight == \A c \in Calls : ~InFlight(c)

IssueObserved == observed.op \in {"acquire", "rejected"}

\* C1: in every reachable state the pool holds at most maxSessions sessions.
\* Fails: the length test (line 91) and the push (line 118) are separated by
\* `await this.model.createContext`.
C1_PoolWithinCapacity == Len(sessions) <= maxSessions

\* C2: with reuseSessions = false and maxSessions = N, of N+1 calls issued
\* while all earlier ones are still in flight the first N each start creating a
\* session and the (N+1)th fails with the pool-exhausted error.
C2_OverflowCallRejected ==
    (/\ ~reuseSessions
     /\ disposePc = "idle"
     /\ IssueObserved
     /\ observed.others = observed.nth - 1
     /\ observed.nth <= maxSessions + 1)
    => IF observed.nth <= maxSessions
       THEN observed.op = "acquire" /\ observed.created
       ELSE observed.op = "rejected" /\ observed.acqErr = PoolExhausted

\* C3: every session is held by at most one in-flight call, every session a
\* call holds is busy, and a busy session is held by exactly one call.
C3_OneHolderPerSession ==
    \A s \in Ids :
        /\ Cardinality(Holders(s)) <= 1
        /\ Holders(s) # {} => objs[s].made /\ objs[s].busy
        /\ objs[s].busy => Cardinality(Holders(s)) = 1

\* a call took an idle session by reuse while another call holds a session
C3_Witness ==
    /\ observed.op = "acquire"
    /\ ~observed.created
    /\ \E c, d \in Calls : /\ c # d
                            /\ Holds(c, observed.got)
                            /\ calls[d].pc \in {"acquired", "prompting"}
                            /\ calls[d].ms # observed.got

\* C4: a call that ran with no other call in flight leaves as many busy
\* sessions in the pool as there were when it was issued, whatever its
\* outcome; and whenever no call is in flight no session of the pool is busy.
C4_NoLeakedBusy ==
    /\ NoCallInFlight => BusyCount(sessions, objs) = 0
    /\ observed.op = "return" /\ observed.solo
            => observed.busyAfter = observed.busyBefore
    /\ observed.op = "rejected" /\ observed.others = 0
            => BusyCount(sessions, objs) = observed.busyBefore

\* a call that ran alone has just failed in the provider's generation and
\* released the pool session it held
C4_Witness ==
    /\ observed.op = "return"
    /\ observed.solo
    /\ observed.error = CatchWrap(observed.kind, ProviderReason)
    /\ observed.released \in Pool
    /\ NoCallInFlight

\* C5: when acquisition fails, the caller of generate gets the acquisition
\* error (pool exhausted, session creation) unchanged.
\* Fails: the acquisition is inside generate's try, whose catch (line 179)
\* wraps every error as `Inference failed: ...`.
C5_AcquisitionErrorUnchanged ==
    observed.op \in {"return", "rejected"} /\ observed.acqErr # NoError
        => observed.error = observed.acqErr

\* C6 as claimed: with reuseSessions = true, the acquire that follows
\* release(s), s still in the pool, returns s and creates nothing (looked at
\* only in pools that are within their capacity).
C6_NextAcquireReturnsReleased ==
    (/\ reuseSessions
     /\ observed.op = "acquire"
     /\ observed.after # 0
     /\ Len(observed.before) <= maxSessions)
        => ~observed.created /\ observed.got = observed.after

\* C6 as amended: with reuseSessions = true, the acquire that follows
\* release(s), s still in the pool, creates nothing and returns the first
\* session of the pool, in pool order, that was idle; that is s when no idle
\* session precedes s.
C6_NextAcquireReusesFirstIdle ==
    reuseSessions /\ observed.op = "acquire" /\ observed.after # 0
        => /\ ~observed.created
           /\ observed.got \in observed.idle
           /\ \A i, j \in DOMAIN observed.before :
                 observed.before[j] = observed.got /\ i < j
                     => observed.before[i] \notin observed.idle
           /\ sessions = observed.before
           /\ objs[observed.got].busy
           /\ (\A i, j \in DOMAIN observed.before :
                 observed.before[j] = observed.after /\ i < j
                     => observed.before[i] \notin observed.idle)
                => observed.got = observed.after

\* the acquire after release(s) returned another idle session than s
C6_Witness ==
    /\ reuseSessions
    /\ observed.op = "acquire"
    /\ observed.after # 0
    /\ Len(observed.before) <= maxSessions
    /\ observed.got # observed.after
    /\ observed.after \in observed.idle

\* C7: a sweep removes and disposes no session that is busy.
C7_SweepKeepsBusy ==
    observed.op = "sweep"
        => \A s \in Range(observed.before) :
              observed.was[s].busy => s \in Pool /\ objs[s] = observed.was[s]

\* a sweep has just left in place a busy session used longer ago than the timeout
C7_Witness ==
    /\ observed.op = "sweep"
    /\ \E s \in Pool : /\ observed.was[s].busy
                        /\ observed.at - observed.was[s].lastUsedAt > sessionTimeout
                        /\ ~objs[s].disposed

\* sessions of the pool before a sweep that the sweep removed
Swept == Range(observed.before) \ Pool

\* C8: a sweep at time now removes a non-busy session exactly when
\* now - lastUsedAt > sessionTimeout, the pool shrinks by the number removed,
\* and the sessions that stay keep their state and their order.
C8_SweepEvictsExactlyExpiredIdle ==
    observed.op = "sweep"
        => /\ \A s \in Range(observed.before) :
                 s \in Swept <=>
                     /\ ~observed.was[s].busy
                     /\ observed.at - observed.was[s].lastUsedAt > sessionTimeout
           /\ Len(sessions) = Len(observed.before) - Cardinality(Swept)
           /\ sessions = SelectSeq(observed.before, LAMBDA s : s \notin Swept)
           /\ \A s \in Pool : objs[s] = observed.was[s]
           /\ \A s \in Swept : objs[s].disposed

\* a sweep has just removed a session and kept one idle for exactly the timeout
C8_Witness ==
    /\ observed.op = "sweep"
    /\ Swept # {}
    /\ \E s \in Pool : /\ ~objs[s].busy
                        /\ observed.at - objs[s].lastUsedAt = sessionTimeout

\* C9: a disposed session is never handed out again and its busy flag and
\* requestCount never change.
\* Fails: dispose() clears sessions that calls still hold, and their finally
\* blocks (line 184) then run markAvailable on them.
C9_DisposedIsTerminal ==
    [][\A s \in Ids :
          objs[s].disposed
              => /\ objs'[s].disposed
                 /\ objs'[s].busy = objs[s].busy
                 /\ objs'[s].requestCount = objs[s].requestCount]_vars

\* C10: once dispose() has completed the timer is stopped and the pool holds no
\* session whose creation had started when dispose() was called.
\* Fails: a createSession suspended in createContext pushes its session
\* (line 118) onto the array dispose() has installed.
C10_DisposedPoolIsEmpty ==
    disposePc = "done"
        => /\ ~cleanupTimer
           /\ \A s \in Pool : s > idsAtDispose

\* C13: at every observation point getStats() reports totalSessions =
\* busySessions + availableSessions, and totalSessions is the number of
\* sessions in the pool.
C13_StatsAddUp ==
    /\ getStats.totalSessions = getStats.busySessions + getStats.availableSessions
    /\ getStats.totalSessions = Cardinality(Pool)

\* the pool holds a busy and an idle session while dispose() is in its loop
C13_Witness ==
    /\ disposePc = "loop"
    /\ getStats.busySessions > 0
    /\ getStats.availableSessions > 0

\* C14: acquire reuses an idle session when reuse is enabled and one exists,
\* else starts creating a session when the pool is below maxSessions, else
\* fails at once with the pool-exhausted error; so it fails exactly when the
\* pool size is at least maxSessions and reuse is off or every session is busy.
C14_AcquireOrder ==
    IssueObserved
        => LET size == Len(observed.before)
               reusable == reuseSessions /\ observed.idle # {}
           IN  /\ reusable
                     => /\ observed.op = "acquire"
                        /\ ~observed.created
                        /\ observed.got \in observed.idle
                        /\ sessions = observed.before
               /\ ~reusable /\ size < maxSessions
                     => observed.op = "acquire" /\ observed.created
               /\ ~reusable /\ size >= maxSessions
                     => /\ observed.op = "rejected"
                        /\ observed.acqErr = PoolExhausted
                        /\ sessions = observed.before
               /\ observed.op = "rejected"
                     <=> /\ size >= maxSessions
                         /\ ~reuseSessions \/ observed.idle = {}

\* with reuse enabled a call was rejected at once: the pool is full and every
\* session in it is busy
C14_Witness ==
    /\ observed.op = "rejected"
    /\ reuseSessions
    /\ Len(observed.before) = maxSessions
    /\ observed.idle = {}

\* ids taken by createSession calls that are still awaiting createContext
PendingIds == {calls[c].sessionId : c \in {d \in Calls : calls[d].pc = "creating"}}

\* C16: no two sessions of a pool have the same id, and a creation that
\* starts later takes a strictly larger id than every creation started before,
\* whether those are still pending, have succeeded or have failed.
C16_IdsUniqueIncreasing ==
    /\ \A i, j \in DOMAIN sessions : i # j => sessions[i] # sessions[j]
    /\ \A c, d \in Calls :
          c # d /\ calls[c].pc = "creating" /\ calls[d].pc = "creating"
              => calls[c].sessionId # calls[d].sessionId
    /\ \A s \in PendingIds : ~objs[s].made /\ s \notin Pool
    /\ \A s \in Ids : objs[s].made \/ s \in PendingIds => s <= sessionIdCounter
    /\ observed.op = "acquire" /\ observed.created
          => /\ observed.got = sessionIdCounter
             /\ \A s \in Ids : objs[s].made => s < observed.got
             /\ \A s \in PendingIds \ {observed.got} : s < observed.got

\* a creation has started while an earlier one is pending and one has failed
C16_Witness ==
    /\ observed.op = "acquire"
    /\ observed.created
    /\ observed.got = 3
    /\ PendingIds = {2, 3}
    /\ ~objs[1].made

\* C19: with reuseSessions = false a session is handed out only by its
\* creation, so its requestCount never exceeds 1, and an acquire on a pool
\* that holds maxSessions sessions or more fails with the pool-exhausted error
\* even when sessions are idle.
C19_NoReuseWhenDisabled ==
    ~reuseSessions
        => /\ \A s \in Ids : objs[s].requestCount <= 1
           /\ observed.op = "acquire" => observed.created
           /\ IssueObserved /\ Len(observed.before) >= maxSessions
                 => observed.op = "rejected" /\ observed.acqErr = PoolExhausted

\* reuse is off and a call was rejected although every session of the full
\* pool is idle
C19_Witness ==
    /\ ~reuseSessions
    /\ observed.op = "rejected"
    /\ Len(observed.before) = maxSessions
    /\ observed.idle = Range(observed.before)
    /\ \A s \in Pool : objs[s].requestCount = 1

\* the message of error ends with the message of reason
Carries(error, reason) ==
    /\ Len(error) >= Len(reason)
    /\ SubSeq(error, Len(error) - Len(reason) + 1, Len(error)) = reason

\* C18: when createContext fails during acquire, the pool gets no session,
\* the busy flag and requestCount of every session stay as they were, the
\* failing call releases no session, and the error it throws carries the
\* provider's failure reason.
C18_CreationFailureLeavesPool ==
    [][\A c \in Calls :
          calls[c].pc = "creating" /\ calls'[c].pc = "idle"
              => /\ sessions' = sessions
                 /\ \A s \in Ids : /\ objs'[s].made = objs[s].made
                                    /\ objs'[s].busy = objs[s].busy
                                    /\ objs'[s].requestCount = objs[s].requestCount
                 /\ observed'.op = "return"
                 /\ observed'.nth = calls[c].nth
                 /\ observed'.released = 0
                 /\ observed'.error # NoError
                 /\ Carries(observed'.error, ProviderReason)]_vars

\* a call has failed in createContext while the pool holds a busy session and
\* an idle one that has served a request
C18_Witness ==
    /\ observed.op = "return"
    /\ Carries(observed.acqErr, ProviderReason)
    /\ observed.released = 0
    /\ \E s \in Pool : objs[s].busy
    /\ \E s \in Pool : ~objs[s].busy /\ objs[s].requestCount > 0

\* reuse is on, every call so far was issued with no other call in flight, no
\* sweep has evicted a session and dispose() has not been called
SequentialReuse ==
    /\ reuseSessions
    /\ sequential
    /\ disposePc = "idle"
    /\ \A s \in Ids : ~objs[s].disposed

Made == {s \in Ids : objs[s].made}

\* C12 as stated: with reuse on, calls issued one after the other and no
\* eviction, at most one session is created, the first call creates it and
\* every later call reuses it.  Fails: when createContext rejects in the first
\* call no session exists afterwards and the second call creates one.
C12_EveryLaterCallReuses ==
    SequentialReuse
        => /\ Cardinality(Made) <= 1
           /\ observed.op = "acquire"
                 => (observed.created <=> observed.nth = 1)

\* C12, amended: with reuse on, calls issued one after the other and no
\* eviction, no call is rejected, at most one session is ever constructed, a
\* call creates only when the pool is empty (no creation has succeeded yet),
\* every call issued once the session exists reuses it, and every result
\* carries that session's id.
C12_OneSessionServesAll ==
    SequentialReuse
        => /\ Cardinality(Made) <= 1
           /\ Made = Pool
           /\ observed.op # "rejected"
           /\ observed.op = "acquire"
                 => /\ observed.created <=> observed.before = <<>>
                    /\ ~observed.created => observed.got = observed.before[1]
           /\ observed.op = "return" /\ observed.error = NoError
                 => observed.sessionId \in Made

\* the third of three sequential calls returns the id of the one session
\* ever created
C12_Witness ==
    /\ SequentialReuse
    /\ observed.op = "return"
    /\ observed.nth = 3
    /\ observed.error = NoError
    /\ sessionIdCounter = 1
    /\ observed.sessionId = 1

\* C15: a session's requestCount is the number of generate/generateStream
\* calls that acquired it and have finished, on success and on failure alike;
\* after k sequential calls served by one reused session it is k.
C15_RequestCountIsFinishedCalls ==
    /\ \A s \in Ids : objs[s].requestCount = served[s]
    /\ SequentialReuse /\ NoCallInFlight /\ sessionIdCounter = 1 /\ objs[1].made
          => objs[1].requestCount = issued

\* one reused session has served a call that succeeded and calls that failed,
\* three in all
C15_Witness ==
    /\ SequentialReuse
    /\ observed.op = "return"
    /\ observed.error # NoError
    /\ observed.released = 1
    /\ sessionIdCounter = 1
    /\ issued = 3
    /\ objs[1].requestCount = 3

CountUp(n) == [i \in 1..n |-> i]

\* C17: during generateStream the caller's onToken is invoked once per
\* fragment, in order, with cumulative counts 1, 2, ..., n; on success the
\* result's tokens is n; when the provider fails after j fragments onToken
\* has been invoked j times, the call fails with the streaming-inference
\* error and its session has been released.
C17_OnTokenOncePerFragment ==
    /\ \A c \in Calls : calls[c].delivered = CountUp(calls[c].fragments)
    /\ observed.op = "return" /\ observed.kind = "stream"
          => /\ observed.delivered = CountUp(observed.fragments)
             /\ observed.error = NoError => observed.tokens = observed.fragments
             /\ observed.acqErr = NoError /\ Carries(observed.error, ProviderReason)
                   => /\ observed.error =
                             <<"Streaming inference failed">> \o ProviderReason
                      /\ observed.released \in Ids
                      /\ ~objs[observed.released].busy
                      /\ Holders(observed.released) = {}

\* the provider has failed after one fragment of a generateStream call
C17_Witness ==
    /\ observed.op = "return"
    /\ observed.kind = "stream"
    /\ observed.acqErr = NoError
    /\ Carries(observed.error, ProviderReason)
    /\ observed.fragments = 1
    /\ observed.delivered = <<1>>

\* C20: every idle session of the pool that is not acquired again is
\* eventually removed and disposed, by a sweep of the timer or by dispose(),
\* also when its creating call was in flight at dispose() or issued after it.
\* Stated as what that needs in every state: an idle session in the pool has a
\* remover left, the armed timer or a dispose() still in its loop.  Fails:
\* dispose() stops the timer (line 325) and empties the array once (line 332);
\* a session pushed afterwards (line 118) stays in the pool with no sweep and
\* no shutdown to come.
C20_IdleSessionHasRemover ==
    \A s \in Pool : ~objs[s].busy => cleanupTimer \/ disposePc = "loop"

\* what holds in every state of a quickInference invocation
QuickInvariant ==
    /\ maxSessions = 1
    /\ ~reuseSessions
    /\ issued <= 1
    /\ disposePc # "idle" => issued = 1 /\ NoCallInFlight
    /\ disposePc = "done"
          => /\ sessions = <<>>
             /\ ~cleanupTimer
             /\ \A s \in Ids : objs[s].made => objs[s].disposed /\ ~objs[s].busy
    /\ observed.op = "construct"
          => /\ sessions = <<>>
             /\ sessionIdCounter = 0
             /\ cleanupTimer
             /\ \A s \in Ids : ~objs[s].made
    /\ observed.op = "acquire"
          => observed.created /\ observed.got = 1 /\ observed.before = <<>>

\* C11: an invocation of quickInference builds a pool with capacity 1 and
\* reuse off, makes exactly one generate call, and disposes the pool whether
\* generate returned or threw: once the call has come back the pool gets
\* disposed, after which it holds no session and its timer is stopped; a later
\* invocation starts from a fresh pool (no sessions, first session id 1).
C11_QuickInferenceDisposes ==
    /\ []QuickInvariant
    /\ (observed.op = "return") ~> (disposePc = "done")

\* a later invocation has constructed its pool after the earlier one was
\* disposed
C11_Witness ==
    /\ observed.op = "construct"
    /\ disposePc = "idle"
    /\ issued = 0

====
